---- MODULE Spec2Model ----
(***************************************************************************)
(* Booking workflow, journey e-mails and tee-time repair of the            *)
(* streamsong dashboard, as a state machine over the bookings table.       *)
(*                                                                         *)
(* A booking row is a record; the table is a function from booking_id to   *)
(* rows.  SQL NULL is the empty sequence <<>> and a timestamp taken on day *)
(* d is <<d>>, so that Python's truth test "not b.get(col)" is col = <<>>. *)
(***************************************************************************)
EXTENDS Integers, Sequences, FiniteSets, TLC

VARIABLES
    today,          \* datetime.now().date() / CURRENT_DATE, as a day number
    bookings,       \* the bookings table: booking_id -> row
    existing_cols,  \* which of the two tracking columns the table has
    cache,          \* st.cache_data entry of load_bookings_from_db, per app
    nav,            \* the status buttons of the card rendered last
    run,            \* the dispatch runs (CLI batch or journey page click)
    delivered,      \* e-mails the provider accepted, per booking and event
    backfill,       \* the tee-time backfill runs so far, oldest first
    resolved,       \* the last call of the tee-time resolver and its result
    session         \* per dashboard session: the table its script run loaded

vars == <<today, bookings, existing_cols, cache, nav, run, delivered, backfill,
         resolved, session>>

----------------------------------------------------------------------------
(* Bounds of the model *)

MaxRows == 1        \* rows of the table in the status workflow
NumBookings == 2    \* rows of the table under concurrent dispatch
NumRuns == 2        \* dispatch runs that may overlap
BatchSize == 3      \* rows of the table in the single-batch specification
MaxBackfillRuns == 2    \* tee-time backfill runs in a row
NumSessions == 2        \* dashboard sessions open at the same time

StatusIds == 1..MaxRows
BookingIds == 1..NumBookings
BatchIds == 1..BatchSize
AllIds == StatusIds \cup BookingIds \cup BatchIds
Runs == 1..NumRuns
Sessions == 1..NumSessions

----------------------------------------------------------------------------
(* Program constants *)

PRE_ARRIVAL_DAYS == 3
POST_PLAY_DAYS == 2
RecentWindowDays == 30

NULL == <<>>
Timestamp(d) == <<d>>

\* A value of a nullable text column: NULL, or Text(s) for the string s
\* (Text("") is the empty string, which is not NULL).
Text(s) == <<s>>

Statuses == {"Inquiry", "Pending", "Requested", "Confirmed", "Booked",
             "Rejected", "Cancelled"}

EventTypes == {"pre_arrival", "post_play"}

Users == {"admin"}

Apps == {"dashboard", "example_usage"}

\* column_map of mark_email_sent
TrackingColumn(email_type) ==
    IF email_type = "pre_arrival" THEN "pre_arrival_email_sent_at"
    ELSE "post_play_email_sent_at"

----------------------------------------------------------------------------
(* Status navigation of the dashboard card (dashboard.py) *)

\* A card whose Reject column does not leave out Booked.
NavButtonsNoBookedGuard(current_status) ==
    (IF current_status = "Requested" THEN {"nav_back_inq"}
     ELSE IF current_status = "Confirmed" THEN {"nav_back_req"}
     ELSE IF current_status = "Booked" THEN {"nav_back_conf"}
     ELSE {})
    \cup (IF current_status \in {"Inquiry", "Pending"} THEN {"nav_req"} ELSE {})
    \cup (IF current_status = "Requested" THEN {"nav_conf"} ELSE {})
    \cup (IF current_status = "Confirmed" THEN {"nav_book"} ELSE {})
    \cup (IF current_status \notin {"Rejected", "Cancelled"} THEN {"nav_rej"}
          ELSE {})
    \cup (IF current_status = "Booked" THEN {"nav_cancel"} ELSE {})
    \cup (IF current_status \in {"Rejected", "Cancelled"} THEN {"nav_restore"}
          ELSE {})

\* A card without the restore button.
NavButtonsNoRestore(current_status) ==
    (IF current_status = "Requested" THEN {"nav_back_inq"}
     ELSE IF current_status = "Confirmed" THEN {"nav_back_req"}
     ELSE IF current_status = "Booked" THEN {"nav_back_conf"}
     ELSE {})
    \cup (IF current_status \in {"Inquiry", "Pending"} THEN {"nav_req"} ELSE {})
    \cup (IF current_status = "Requested" THEN {"nav_conf"} ELSE {})
    \cup (IF current_status = "Confirmed" THEN {"nav_book"} ELSE {})
    \cup (IF current_status \notin {"Rejected", "Cancelled", "Booked"}
          THEN {"nav_rej"}
          ELSE IF current_status = "Booked" THEN {"nav_cancel"}
          ELSE {})

\* A card that offers "-> Booked" from Requested as well.
NavButtonsBookFromRequested(current_status) ==
    (IF current_status = "Requested" THEN {"nav_back_inq"}
     ELSE IF current_status = "Confirmed" THEN {"nav_back_req"}
     ELSE IF current_status = "Booked" THEN {"nav_back_conf"}
     ELSE {})
    \cup (IF current_status \in {"Inquiry", "Pending"} THEN {"nav_req"} ELSE {})
    \cup (IF current_status = "Requested" THEN {"nav_conf"} ELSE {})
    \cup (IF current_status \in {"Requested", "Confirmed"} THEN {"nav_book"} ELSE {})
    \cup (IF current_status \notin {"Rejected", "Cancelled", "Booked"}
          THEN {"nav_rej"}
          ELSE IF current_status = "Booked" THEN {"nav_cancel"}
          ELSE {})
    \cup (IF current_status \in {"Rejected", "Cancelled"} THEN {"nav_restore"}
          ELSE {})

\* The button keys a card renders for current_status, column by column.
NavButtons(current_status) ==
    (IF current_status = "Requested" THEN {"nav_back_inq"}
     ELSE IF current_status = "Confirmed" THEN {"nav_back_req"}
     ELSE IF current_status = "Booked" THEN {"nav_back_conf"}
     ELSE {})
    \cup (IF current_status \in {"Inquiry", "Pending"} THEN {"nav_req"} ELSE {})
    \cup (IF current_status = "Requested" THEN {"nav_conf"} ELSE {})
    \cup (IF current_status = "Confirmed" THEN {"nav_book"} ELSE {})
    \cup (IF current_status \notin {"Rejected", "Cancelled", "Booked"}
          THEN {"nav_rej"}
          ELSE IF current_status = "Booked" THEN {"nav_cancel"}
          ELSE {})
    \cup (IF current_status \in {"Rejected", "Cancelled"} THEN {"nav_restore"}
          ELSE {})

\* The status literal each button passes to update_booking_status.
ButtonTarget(key) ==
    CASE key = "nav_back_inq"  -> "Inquiry"
      [] key = "nav_back_req"  -> "Requested"
      [] key = "nav_back_conf" -> "Confirmed"
      [] key = "nav_req"       -> "Requested"
      [] key = "nav_conf"      -> "Confirmed"
      [] key = "nav_book"      -> "Booked"
      [] key = "nav_rej"       -> "Rejected"
      [] key = "nav_cancel"    -> "Cancelled"
      [] key = "nav_restore"   -> "Inquiry"

NavKeys == {"nav_back_inq", "nav_back_req", "nav_back_conf", "nav_req",
            "nav_conf", "nav_book", "nav_rej", "nav_cancel", "nav_restore"}

\* The "Change Status" buttons of example_usage.show_dashboard.
ExampleTargets(current_status) ==
    (IF current_status # "Inquiry" THEN {"Inquiry"} ELSE {})
    \cup (IF current_status # "Requested" THEN {"Requested"} ELSE {})
    \cup (IF current_status # "Confirmed" THEN {"Confirmed"} ELSE {})
    \cup (IF current_status # "Booked" THEN {"Booked"} ELSE {})
    \cup (IF current_status \notin {"Rejected", "Cancelled"} THEN {"Rejected"}
          ELSE {})

----------------------------------------------------------------------------
(* The booking store (modules/database/bookings.py) *)

\* UPDATE bookings SET status, updated_at = NOW(), updated_by WHERE booking_id
\* An UPDATE that also resets the two tracking columns.
update_status_resetting_markers(db, booking_id, new_status, updated_by) ==
    IF booking_id \in DOMAIN db
    THEN [db EXCEPT ![booking_id] =
             [@ EXCEPT !.status = new_status,
                       !.updated_at = Timestamp(today),
                       !.updated_by = updated_by,
                       !.pre_arrival_email_sent_at = NULL,
                       !.post_play_email_sent_at = NULL]]
    ELSE db

\* An UPDATE that sets the status alone.
update_status_column_only(db, booking_id, new_status, updated_by) ==
    IF booking_id \in DOMAIN db
    THEN [db EXCEPT ![booking_id].status = new_status]
    ELSE db

update_booking_status(db, booking_id, new_status, updated_by) ==
    IF booking_id \in DOMAIN db
    THEN [db EXCEPT ![booking_id] =
             [@ EXCEPT !.status = new_status,
                       !.updated_at = Timestamp(today),
                       !.updated_by = updated_by]]
    ELSE db

\* SELECT ... FROM bookings WHERE club = %s, reduced to the status column
\* the cards read.
QueryBookings(db, club_filter) ==
    [b \in {x \in DOMAIN db : db[x].club = club_filter} |-> db[b].status]

\* load_bookings_from_db under @st.cache_data(ttl=10): the cached frame
\* while there is one, a fresh query otherwise.
load_bookings_from_db(app, club_filter) ==
    IF cache[app] # <<>> THEN cache[app][1]
    ELSE QueryBookings(bookings, club_filter)

Club == "streamsong"

\* The status the waitlist entry itself gets.
ConvertedStatusAsWaitlist == "Converted"

\* The status convert_waitlist_to_booking inserts the booking with.
ConvertedStatus == "Confirmed"

NewBooking(status, date, guest_email, club) ==
    [status |-> status, date |-> date, guest_email |-> guest_email,
     club |-> club,
     pre_arrival_email_sent_at |-> NULL, post_play_email_sent_at |-> NULL,
     updated_by |-> "", updated_at |-> NULL,
     tee_time |-> NULL, note |-> NULL]

----------------------------------------------------------------------------
(* Status workflow: the dashboard and example_usage pages, the waitlist *)

Snapshot(df) == <<df>>

\* One script run of dashboard.py that renders the card of booking b.
RenderCard(b) ==
    LET df == load_bookings_from_db("dashboard", Club) IN
    /\ b \in DOMAIN df
    /\ nav' = <<[current_status |-> df[b], buttons |-> NavButtons(df[b])]>>
    /\ cache' = [cache EXCEPT !["dashboard"] = Snapshot(df)]
    /\ UNCHANGED <<today, bookings, existing_cols, run, delivered, backfill, resolved, session>>

\* A click on a status button of dashboard.py: the script reruns, the button
\* fires if the rerun renders it, update_booking_status writes, and on
\* success st.cache_data.clear() drops the cached frame.
DashboardClick(b, key, updated_by, db_ok) ==
    LET df == load_bookings_from_db("dashboard", Club) IN
    /\ b \in DOMAIN df
    /\ key \in NavButtons(df[b])
    /\ IF db_ok
       THEN /\ bookings' = update_booking_status(bookings, b, ButtonTarget(key),
                                                 updated_by)
            /\ cache' = [cache EXCEPT !["dashboard"] = <<>>]
       ELSE /\ bookings' = bookings
            /\ cache' = [cache EXCEPT !["dashboard"] = Snapshot(df)]
    /\ UNCHANGED <<today, existing_cols, nav, run, delivered, backfill, resolved, session>>

\* A click on a "Change Status" button of example_usage.py: the result of
\* update_booking_status is ignored and the cache is not cleared.
ExampleClick(b, new_status, updated_by, db_ok) ==
    LET df == load_bookings_from_db("example_usage", Club) IN
    /\ b \in DOMAIN df
    /\ new_status \in ExampleTargets(df[b])
    /\ bookings' = IF db_ok
                   THEN update_booking_status(bookings, b, new_status, updated_by)
                   ELSE bookings
    /\ cache' = [cache EXCEPT !["example_usage"] = Snapshot(df)]
    /\ UNCHANGED <<today, existing_cols, nav, run, delivered, backfill, resolved, session>>

\* The ttl of st.cache_data runs out.
CacheExpire(app) ==
    /\ cache[app] # <<>>
    /\ cache' = [cache EXCEPT ![app] = <<>>]
    /\ UNCHANGED <<today, bookings, existing_cols, nav, run, delivered, backfill, resolved, session>>

\* convert_waitlist_to_booking: INSERT INTO bookings (..., status, ...) with
\* a fresh booking_id; an error (a duplicate id included) inserts nothing.
convert_waitlist_to_booking(requested_date, guest_email, club) ==
    /\ \E b \in StatusIds : b \notin DOMAIN bookings
    /\ LET b == CHOOSE x \in StatusIds :
                   /\ x \notin DOMAIN bookings
                   /\ \A y \in StatusIds : y \notin DOMAIN bookings => x <= y
       IN bookings' = [x \in DOMAIN bookings \cup {b} |->
                          IF x = b
                          THEN NewBooking(ConvertedStatus, requested_date,
                                          guest_email, club)
                          ELSE bookings[x]]
    /\ UNCHANGED <<today, existing_cols, cache, nav, run, delivered, backfill, resolved, session>>

IdleRun ==
    [pc |-> "idle", module |-> "", email_type |-> "", show_all |-> FALSE,
     dry_run |-> FALSE, configured |-> FALSE, bulk |-> FALSE, resend |-> FALSE,
     sel |-> <<>>, queue |-> <<>>, i |-> 0, accepted |-> FALSE,
     sent_count |-> 0, failed_count |-> 0, results |-> <<>>,
     warned |-> FALSE]

IdleRuns == [r \in Runs |-> IdleRun]

NoSessions == [s \in Sessions |-> <<>>]

NoDeliveries == [b \in AllIds |-> [e \in EventTypes |-> 0]]

\* Bookings as the intake left them: any status of the workflow, the table
\* holding the first k of the ids.
InitStatus ==
    /\ today = 0
    /\ \E k \in 0..MaxRows :
         bookings \in [1..k -> {NewBooking(s, PRE_ARRIVAL_DAYS, "guest@example.com", Club) :
                                   s \in Statuses}]
    /\ existing_cols = {}
    /\ cache = [a \in Apps |-> <<>>]
    /\ nav = <<>>
    /\ run = IdleRuns
    /\ delivered = NoDeliveries
    /\ backfill = <<>>
    /\ resolved = <<>>
    /\ session = NoSessions

NextStatus ==
    \/ \E b \in StatusIds, key \in NavKeys, u \in Users, ok \in BOOLEAN :
          DashboardClick(b, key, u, ok)
    \/ \E b \in StatusIds, s \in Statuses, u \in Users, ok \in BOOLEAN :
          ExampleClick(b, s, u, ok)
    \/ \E a \in Apps : CacheExpire(a)
    \/ convert_waitlist_to_booking(PRE_ARRIVAL_DAYS + 1, "guest@example.com", Club)

SpecStatus == InitStatus /\ [][NextStatus]_vars

\* The dashboard alone: cards are rendered and their buttons clicked.
NextNav ==
    \/ \E b \in StatusIds : RenderCard(b)
    \/ \E b \in StatusIds, key \in NavKeys, u \in Users, ok \in BOOLEAN :
          DashboardClick(b, key, u, ok)
    \/ CacheExpire("dashboard")

SpecNav == InitStatus /\ [][NextNav]_vars

\* A script run of one dashboard session, in two steps: it loads the table
\* (from the cache, or from the database and into the cache) ...
SessionLoad(s) ==
    /\ session[s] = <<>>
    /\ LET df == load_bookings_from_db("dashboard", Club)
       IN /\ session' = [session EXCEPT ![s] = Snapshot(df)]
          /\ cache' = [cache EXCEPT !["dashboard"] = Snapshot(df)]
    /\ UNCHANGED <<today, bookings, existing_cols, nav, run, delivered, backfill, resolved>>

\* ... and then reaches the button that was clicked, which exists if the
\* card of the loaded status has it, and calls update_booking_status.
SessionClick(s, b, key, updated_by, db_ok) ==
    /\ session[s] # <<>>
    /\ b \in DOMAIN session[s][1]
    /\ key \in NavButtons(session[s][1][b])
    /\ IF db_ok
       THEN /\ bookings' = update_booking_status(bookings, b, ButtonTarget(key),
                                                 updated_by)
            /\ cache' = [cache EXCEPT !["dashboard"] = <<>>]
       ELSE UNCHANGED <<bookings, cache>>
    /\ session' = [session EXCEPT ![s] = <<>>]
    /\ UNCHANGED <<today, existing_cols, nav, run, delivered, backfill, resolved>>

\* The script run ends without a click.
SessionIdle(s) ==
    /\ session[s] # <<>>
    /\ session' = [session EXCEPT ![s] = <<>>]
    /\ UNCHANGED <<today, bookings, existing_cols, cache, nav, run, delivered, backfill, resolved>>

\* Dashboard sessions only, their script runs interleaved.
NextSessions ==
    \/ \E s \in Sessions : SessionLoad(s)
    \/ \E s \in Sessions, b \in StatusIds, key \in NavKeys, u \in Users, ok \in BOOLEAN :
          SessionClick(s, b, key, u, ok)
    \/ \E s \in Sessions : SessionIdle(s)
    \/ CacheExpire("dashboard")

SpecSessions == InitStatus /\ [][NextSessions]_vars

----------------------------------------------------------------------------
(* Journey selection (customer_journey_marketing_logic.py and             *)
(* modules/customer_journey/emails.py)                                     *)

\* The value a query returns for the tracking column of email_type:
\* the column, or "NULL as <column>" when the table lacks it.
SentAt(row, email_type) ==
    IF TrackingColumn(email_type) \notin existing_cols THEN NULL
    ELSE IF email_type = "pre_arrival" THEN row.pre_arrival_email_sent_at
    ELSE row.post_play_email_sent_at

\* One dict of cursor.fetchall(): the selected columns of booking b.
Row(db, b, email_type) ==
    [booking_id |-> b,
     guest_email |-> db[b].guest_email,
     play_date |-> db[b].date,
     sent_at |-> SentAt(db[b], email_type)]

\* ORDER BY date [DESC]; rows of one date come in booking_id order.
Before(db, x, y, desc) ==
    \/ x = y
    \/ IF desc THEN db[x].date > db[y].date ELSE db[x].date < db[y].date
    \/ db[x].date = db[y].date /\ x < y

RECURSIVE OrderBy(_, _, _, _)
OrderBy(db, S, email_type, desc) ==
    IF S = {} THEN <<>>
    ELSE LET first == CHOOSE x \in S : \A y \in S : Before(db, x, y, desc)
         IN <<Row(db, first, email_type)>>
                \o OrderBy(db, S \ {first}, email_type, desc)

\* [b for b in bookings if not b.get(column)]
Unsent(rows) == SelectSeq(rows, LAMBDA row : row.sent_at = NULL)

\* A selection by range: every date from the target date on.
logic_upcoming_range(db, days_ahead, club_filter) ==
    LET matching == {b \in DOMAIN db :
                        /\ db[b].status = "Confirmed"
                        /\ db[b].date >= today + days_ahead
                        /\ club_filter # "" => db[b].club = club_filter}
    IN Unsent(OrderBy(db, matching, "pre_arrival", FALSE))

\* customer_journey_marketing_logic.get_upcoming_bookings
logic_get_upcoming_bookings(db, days_ahead, club_filter) ==
    LET target_date == today + days_ahead
        has_tracking == "pre_arrival_email_sent_at" \in existing_cols
        matching == {b \in DOMAIN db :
                        /\ db[b].status = "Confirmed"
                        /\ db[b].date = target_date
                        /\ club_filter # "" => db[b].club = club_filter}
        rows == OrderBy(db, matching, "pre_arrival", FALSE)
    IN IF has_tracking THEN Unsent(rows) ELSE rows

\* customer_journey_marketing_logic.get_recent_bookings
logic_get_recent_bookings(db, days_ago, club_filter) ==
    LET target_date == today - days_ago
        has_tracking == "post_play_email_sent_at" \in existing_cols
        matching == {b \in DOMAIN db :
                        /\ db[b].status = "Confirmed"
                        /\ db[b].date = target_date
                        /\ club_filter # "" => db[b].club = club_filter}
        rows == OrderBy(db, matching, "post_play", TRUE)
    IN IF has_tracking THEN Unsent(rows) ELSE rows

\* modules/customer_journey/emails.get_upcoming_bookings
emails_get_upcoming_bookings(db, days_ahead, show_all) ==
    LET matching == {b \in DOMAIN db :
                        /\ db[b].club = "streamsong"
                        /\ db[b].status = "Confirmed"
                        /\ IF show_all THEN db[b].date >= today
                           ELSE db[b].date = today + days_ahead}
    IN OrderBy(db, matching, "pre_arrival", FALSE)

\* A recent-bookings query without the condition on status.
emails_recent_any_status(db, days_ago, show_all) ==
    LET matching == {b \in DOMAIN db :
                        /\ db[b].club = "streamsong"
                        /\ IF show_all THEN db[b].date >= today - RecentWindowDays
                           ELSE db[b].date = today - days_ago}
    IN OrderBy(db, matching, "post_play", TRUE)

\* modules/customer_journey/emails.get_recent_bookings
emails_get_recent_bookings(db, days_ago, show_all) ==
    LET matching == {b \in DOMAIN db :
                        /\ db[b].club = "streamsong"
                        /\ db[b].status = "Confirmed"
                        /\ IF show_all THEN db[b].date >= today - RecentWindowDays
                           ELSE db[b].date = today - days_ago}
    IN OrderBy(db, matching, "post_play", TRUE)

\* The selection a batch of the command-line module starts from.
LogicSelect(email_type, club_filter) ==
    IF email_type = "pre_arrival"
    THEN logic_get_upcoming_bookings(bookings, PRE_ARRIVAL_DAYS, club_filter)
    ELSE logic_get_recent_bookings(bookings, POST_PLAY_DAYS, club_filter)

\* The selection a tab of render_customer_journey_page lists.
PageSelect(email_type, show_all) ==
    IF email_type = "pre_arrival"
    THEN emails_get_upcoming_bookings(bookings, PRE_ARRIVAL_DAYS, show_all)
    ELSE emails_get_recent_bookings(bookings, POST_PLAY_DAYS, show_all)

----------------------------------------------------------------------------
(* Dispatch: send_pre_arrival_email / send_post_play_email,                *)
(* send_welcome_email / send_thank_you_email, mark_email_sent and the      *)
(* loops that call them                                                    *)

\* What sg.send can do: return a response with a status code, or raise.
ProviderOutcomes == {"200", "202", "500", "exception"}

\* The provider has taken the message for delivery (a 2xx response).
ProviderAccepts(outcome) == outcome \in {"200", "202"}

\* A test that takes every response for a success.
IsSuccessStatusAny(status_code) == TRUE

\* response.status_code in [200, 202]
IsSuccessStatus(status_code) == status_code \in {"200", "202"}

\* "not booking.get(field)" for the three required fields.  A selected row
\* always has a booking_id and a play_date (NOT NULL columns); a dict a
\* caller builds may carry an empty booking_id (0 here), an empty
\* guest_email, or no play_date at all.
MissingField(row, field) ==
    CASE field = "booking_id"  -> row.booking_id = 0
      [] field = "guest_email" -> row.guest_email = ""
      [] field = "play_date"   -> "play_date" \notin DOMAIN row

\* The checks without the one on the configuration.
ValidateNoConfig(row, configured) ==
    IF MissingField(row, "booking_id") THEN "Missing booking_id"
    ELSE IF MissingField(row, "guest_email") THEN "Missing guest_email"
    ELSE IF MissingField(row, "play_date") THEN "Missing play_date"
    ELSE ""

\* The checks without the one on play_date.
ValidateNoPlayDate(row, configured) ==
    IF ~configured THEN "SendGrid not configured"
    ELSE IF MissingField(row, "booking_id") THEN "Missing booking_id"
    ELSE IF MissingField(row, "guest_email") THEN "Missing guest_email"
    ELSE ""

\* The checks before the provider is called: configuration, then the
\* required fields in the order of the code.
Validate(row, configured) ==
    IF ~configured THEN "SendGrid not configured"
    ELSE IF MissingField(row, "booking_id") THEN "Missing booking_id"
    ELSE IF MissingField(row, "guest_email") THEN "Missing guest_email"
    ELSE IF MissingField(row, "play_date") THEN "Missing play_date"
    ELSE ""

\* The UPDATE without its conn.commit(): closing the connection drops it.
mark_email_sent_uncommitted(db, booking_id, email_type) == db

\* UPDATE bookings SET <column> = CURRENT_TIMESTAMP WHERE booking_id = %s,
\* only if the column exists.
\* An UPDATE that sets both tracking columns.
mark_email_sent_both_columns(db, booking_id, email_type) ==
    IF TrackingColumn(email_type) \in existing_cols /\ booking_id \in DOMAIN db
    THEN [db EXCEPT ![booking_id].pre_arrival_email_sent_at = Timestamp(today),
                    ![booking_id].post_play_email_sent_at = Timestamp(today)]
    ELSE db

mark_email_sent(db, booking_id, email_type) ==
    IF TrackingColumn(email_type) \in existing_cols /\ booking_id \in DOMAIN db
    THEN IF email_type = "pre_arrival"
         THEN [db EXCEPT ![booking_id].pre_arrival_email_sent_at = Timestamp(today)]
         ELSE [db EXCEPT ![booking_id].post_play_email_sent_at = Timestamp(today)]
    ELSE db

\* A loop that stops at the first failed send.
ItemDoneAbortOnFailure(rr, success, message) ==
    [rr EXCEPT
        !.results = Append(@, [booking_id |-> rr.queue[rr.i].booking_id,
                               status |-> IF success THEN "sent" ELSE "failed",
                               message |-> message]),
        !.sent_count = IF success THEN @ + 1 ELSE @,
        !.failed_count = IF success THEN @ ELSE @ + 1,
        !.accepted = FALSE,
        !.i = @ + 1,
        !.pc = IF ~success \/ rr.i + 1 > Len(rr.queue) THEN "done" ELSE "send"]

\* The loop body after one send returned (success, message).
ItemDone(rr, success, message) ==
    [rr EXCEPT
        !.results = Append(@, [booking_id |-> rr.queue[rr.i].booking_id,
                               status |-> IF success THEN "sent" ELSE "failed",
                               message |-> message]),
        !.sent_count = IF success THEN @ + 1 ELSE @,
        !.failed_count = IF success THEN @ ELSE @ + 1,
        !.accepted = FALSE,
        !.i = @ + 1,
        !.pc = IF rr.i + 1 > Len(rr.queue) THEN "done" ELSE "send"]

\* A loop that calls the send function in a dry run too.
StartRunIgnoringDryRun(module, email_type, show_all, dry_run, configured, bulk, resend, sel, queue) ==
    [pc |-> IF queue = <<>> THEN "done" ELSE "send",
     module |-> module, email_type |-> email_type, show_all |-> show_all,
     dry_run |-> dry_run, configured |-> configured, bulk |-> bulk,
     resend |-> resend,
     sel |-> sel, queue |-> queue, i |-> 1, accepted |-> FALSE,
     sent_count |-> 0, failed_count |-> 0,
     results |-> <<>>,
     warned |-> FALSE]

StartRun(module, email_type, show_all, dry_run, configured, bulk, resend, sel, queue) ==
    [pc |-> IF dry_run \/ queue = <<>> THEN "done" ELSE "send",
     module |-> module, email_type |-> email_type, show_all |-> show_all,
     dry_run |-> dry_run, configured |-> configured, bulk |-> bulk,
     resend |-> resend,
     sel |-> sel, queue |-> queue, i |-> 1, accepted |-> FALSE,
     sent_count |-> 0, failed_count |-> 0,
     results |-> IF dry_run
                 THEN [k \in 1..Len(queue) |->
                          [booking_id |-> queue[k].booking_id,
                           status |-> "would_send", message |-> ""]]
                 ELSE <<>>,
     warned |-> FALSE]

\* process_pre_arrival_emails / process_post_play_emails: the selection,
\* and with dry_run the whole loop.
\* A selection whose connection also stamps the rows it returned.
selection_stamps_rows(db, sel) ==
    [b \in DOMAIN db |->
        IF \E k \in 1..Len(sel) : sel[k].booking_id = b
        THEN [db[b] EXCEPT !.updated_at = Timestamp(today)]
        ELSE db[b]]

\* The table after the statements of a selection: the query on
\* information_schema.columns and the SELECT on bookings, then close().
selection_effect(db, sel) == db

process_emails(r, email_type, club_filter, dry_run, configured) ==
    /\ run[r].pc = "idle"
    /\ LET sel == LogicSelect(email_type, club_filter)
       IN /\ run' = [run EXCEPT ![r] =
                        StartRun("logic", email_type, FALSE, dry_run, configured,
                                 TRUE, FALSE, sel, sel)]
          /\ bookings' = selection_effect(bookings, sel)
    /\ UNCHANGED <<today, existing_cols, cache, nav, delivered, backfill, resolved, session>>

\* The bulk list of a tab, without the filter on the marker.
BulkListUnfiltered(sel) == sel

\* unsent = [b for b in bookings if not b['..._email_sent_at']]
BulkList(sel) == Unsent(sel)

\* render_customer_journey_page, "Send All": the tab's selection, then the
\* loop over the unsent rows (the button exists only if there are any).
PageBulkSend(r, email_type, show_all, configured) ==
    /\ run[r].pc = "idle"
    /\ LET sel == PageSelect(email_type, show_all)
           unsent == BulkList(sel)
       IN /\ unsent # <<>>
          /\ run' = [run EXCEPT ![r] =
                        StartRun("page", email_type, show_all, FALSE, configured,
                                 TRUE, FALSE, sel, unsent)]
          /\ bookings' = selection_effect(bookings, sel)
    /\ UNCHANGED <<today, existing_cols, cache, nav, delivered, backfill, resolved, session>>

\* render_customer_journey_page, the button of one listed row: "Resend" if
\* the row has a marker, "Send ..." otherwise.
PageSendOne(r, email_type, show_all, k, configured) ==
    /\ run[r].pc = "idle"
    /\ LET sel == PageSelect(email_type, show_all)
       IN /\ k \in 1..Len(sel)
          /\ run' = [run EXCEPT ![r] =
                        StartRun("page", email_type, show_all, FALSE, configured,
                                 FALSE, sel[k].sent_at # NULL, sel, <<sel[k]>>)]
          /\ bookings' = selection_effect(bookings, sel)
    /\ UNCHANGED <<today, existing_cols, cache, nav, delivered, backfill, resolved, session>>

\* send_pre_arrival_email / send_post_play_email called by a caller of its
\* own with one booking dict.
send_email(r, email_type, booking, configured) ==
    /\ run[r].pc = "idle"
    /\ run' = [run EXCEPT ![r] =
                  StartRun("logic", email_type, FALSE, FALSE, configured,
                           FALSE, FALSE, <<>>, <<booking>>)]
    /\ UNCHANGED <<today, bookings, existing_cols, cache, nav, delivered, backfill, resolved, session>>

\* One send up to the provider's answer: validation, sg.send, and the test
\* of the status code.
Send(r, outcome) ==
    /\ run[r].pc = "send"
    /\ LET rr == run[r]
           row == rr.queue[rr.i]
           message == Validate(row, rr.configured)
       IN IF message # ""
          THEN /\ run' = [run EXCEPT ![r] = ItemDone(rr, FALSE, message)]
               /\ delivered' = delivered
          ELSE IF outcome = "exception"
          THEN /\ run' = [run EXCEPT ![r] = ItemDone(rr, FALSE, "Error")]
               /\ delivered' = delivered
          ELSE /\ delivered' =
                     IF ProviderAccepts(outcome)
                     THEN [delivered EXCEPT ![row.booking_id][rr.email_type] = @ + 1]
                     ELSE delivered
               /\ run' = [run EXCEPT ![r] =
                             IF IsSuccessStatus(outcome)
                             THEN [rr EXCEPT !.pc = "mark",
                                             !.accepted = ProviderAccepts(outcome)]
                             ELSE ItemDone(rr, FALSE, "SendGrid error")]
    /\ UNCHANGED <<today, bookings, existing_cols, cache, nav, backfill, resolved, session>>

\* Whether mark_email_sent tells its caller that the tracking column is
\* missing: emails.py calls st.warning, the command-line module skips the
\* UPDATE and says nothing.
mark_warns(module, email_type) ==
    module = "page" /\ TrackingColumn(email_type) \notin existing_cols

\* mark_email_sent after an accepted send; a database error raises into
\* the except clause of the send function, which returns (False, "Error").
Mark(r, db_ok) ==
    /\ run[r].pc = "mark"
    /\ LET rr == run[r]
           row == rr.queue[rr.i]
           warned == rr.warned \/ (db_ok /\ mark_warns(rr.module, rr.email_type))
       IN /\ bookings' = IF db_ok
                         THEN mark_email_sent(bookings, row.booking_id, rr.email_type)
                         ELSE bookings
          /\ run' = [run EXCEPT ![r] =
                        ItemDone([rr EXCEPT !.warned = warned], db_ok,
                                 IF db_ok THEN "sent" ELSE "Error")]
    /\ UNCHANGED <<today, existing_cols, cache, nav, delivered, backfill, resolved, session>>

AllTrackingColumns == {TrackingColumn(e) : e \in EventTypes}

InitJourney(ids, statuses, dates, emails, clubs) ==
    /\ today = 0
    /\ bookings \in [ids -> {NewBooking(s, d, g, c) :
                                s \in statuses, d \in dates, g \in emails, c \in clubs}]
    /\ existing_cols \in {{}, AllTrackingColumns}
    /\ cache = [a \in Apps |-> <<>>]
    /\ nav = <<>>
    /\ run = IdleRuns
    /\ delivered = NoDeliveries
    /\ backfill = <<>>
    /\ resolved = <<>>
    /\ session = NoSessions

\* Play dates around day 0: due for pre-arrival, a day later, due for post-play.
PlayDates == {PRE_ARRIVAL_DAYS, PRE_ARRIVAL_DAYS + 1, 0 - POST_PLAY_DAYS}

Init ==
    InitJourney(BookingIds, {"Confirmed", "Requested"}, PlayDates,
                {"", "guest@example.com"}, {Club})

\* Dispatch runs of both modules, overlapping freely.
Next ==
    \/ \E r \in Runs, e \in EventTypes : process_emails(r, e, Club, FALSE, TRUE)
    \/ \E r \in Runs, e \in EventTypes, all \in BOOLEAN :
          PageBulkSend(r, e, all, TRUE)
    \/ \E r \in Runs, e \in EventTypes, all \in BOOLEAN, k \in 1..NumBookings :
          PageSendOne(r, e, all, k, TRUE)
    \/ \E r \in Runs, outcome \in ProviderOutcomes : Send(r, outcome)
    \/ \E r \in Runs, db_ok \in BOOLEAN : Mark(r, db_ok)

Spec == Init /\ [][Next]_vars

\* The same runs on a table that has both tracking columns.
InitMigrated == Init /\ existing_cols = AllTrackingColumns

SpecMigrated == InitMigrated /\ [][Next]_vars

\* One batch of the command-line module over a table of Confirmed bookings
\* that are due; some lack the guest e-mail.
InitBatch ==
    InitJourney(BatchIds, {"Confirmed"}, {PRE_ARRIVAL_DAYS, 0 - POST_PLAY_DAYS},
                {"", "guest@example.com"}, {Club})

NextBatch ==
    \/ \E e \in EventTypes, club_filter \in {"", Club}, dry_run \in BOOLEAN,
          configured \in BOOLEAN :
          process_emails(1, e, club_filter, dry_run, configured)
    \/ \E outcome \in ProviderOutcomes : Send(1, outcome)
    \/ \E db_ok \in BOOLEAN : Mark(1, db_ok)

SpecBatch == InitBatch /\ [][NextBatch]_vars

\* The caller stops the loop of a batch between two items (the process is
\* interrupted before the next send starts).
Abort(r) ==
    /\ run[r].pc = "send"
    /\ run[r].bulk
    /\ run' = [run EXCEPT ![r].pc = "aborted"]
    /\ UNCHANGED <<today, bookings, existing_cols, cache, nav, delivered, backfill, resolved, session>>

\* One batch of the command-line module that its caller may stop.
NextAbort ==
    \/ \E e \in EventTypes : process_emails(1, e, Club, FALSE, TRUE)
    \/ \E outcome \in ProviderOutcomes : Send(1, outcome)
    \/ \E db_ok \in BOOLEAN : Mark(1, db_ok)
    \/ Abort(1)

SpecAbort == InitBatch /\ [][NextAbort]_vars

\* The dicts a caller may hand to a send function: any of the three
\* required fields may be missing.
CallerDicts ==
    {[booking_id |-> b, guest_email |-> g, sent_at |-> NULL] :
        b \in {0} \cup BookingIds, g \in {"", "guest@example.com"}}
    \cup {[booking_id |-> b, guest_email |-> g, play_date |-> d, sent_at |-> NULL] :
             b \in {0} \cup BookingIds, g \in {"", "guest@example.com"},
             d \in {PRE_ARRIVAL_DAYS}}

\* One run of the command-line module: a batch, or one send for a dict of
\* the caller; the sender may be without its configuration.
NextDirect ==
    \/ \E e \in EventTypes, configured \in BOOLEAN :
          process_emails(1, e, Club, FALSE, configured)
    \/ \E e \in EventTypes, booking \in CallerDicts, configured \in BOOLEAN :
          send_email(1, e, booking, configured)
    \/ \E outcome \in ProviderOutcomes : Send(1, outcome)
    \/ \E db_ok \in BOOLEAN : Mark(1, db_ok)

InitDirect ==
    InitJourney(BookingIds, {"Confirmed"}, {PRE_ARRIVAL_DAYS, 0 - POST_PLAY_DAYS},
                {"", "guest@example.com"}, {Club})

SpecDirect == InitDirect /\ [][NextDirect]_vars

\* One run of either module over a table that earlier runs have worked on:
\* with the tracking columns present, a booking may carry a marker of the
\* day before.
InitSelect ==
    /\ today = 0
    /\ existing_cols \in {{}, AllTrackingColumns}
    /\ LET markers == IF existing_cols = {} THEN {NULL}
                       ELSE {NULL, Timestamp(today - 1)}
       IN bookings \in
            [BookingIds ->
               {[NewBooking(s, d, "guest@example.com", Club)
                    EXCEPT !.pre_arrival_email_sent_at = pre,
                           !.post_play_email_sent_at = post] :
                  s \in {"Confirmed", "Requested"}, d \in PlayDates,
                  pre \in markers, post \in markers}]
    /\ cache = [a \in Apps |-> <<>>]
    /\ nav = <<>>
    /\ run = IdleRuns
    /\ delivered = NoDeliveries
    /\ backfill = <<>>
    /\ resolved = <<>>
    /\ session = NoSessions

NextSelect ==
    \/ \E e \in EventTypes : process_emails(1, e, Club, FALSE, TRUE)
    \/ \E e \in EventTypes, all \in BOOLEAN : PageBulkSend(1, e, all, TRUE)
    \/ \E e \in EventTypes, all \in BOOLEAN, k \in 1..NumBookings :
          PageSendOne(1, e, all, k, TRUE)
    \/ \E outcome \in ProviderOutcomes : Send(1, outcome)
    \/ \E db_ok \in BOOLEAN : Mark(1, db_ok)

SpecSelect == InitSelect /\ [][NextSelect]_vars

\* One batch of the command-line module while the dashboard is in use: a
\* status button may be clicked between any two steps of the batch.
InitDispatchAndStatus ==
    InitJourney(StatusIds, {"Confirmed"}, {PRE_ARRIVAL_DAYS, 0 - POST_PLAY_DAYS},
                {"guest@example.com"}, {Club})

NextDispatchAndStatus ==
    \/ \E e \in EventTypes : process_emails(1, e, Club, FALSE, TRUE)
    \/ \E outcome \in ProviderOutcomes : Send(1, outcome)
    \/ \E db_ok \in BOOLEAN : Mark(1, db_ok)
    \/ \E b \in StatusIds, key \in NavKeys, u \in Users, ok \in BOOLEAN :
          DashboardClick(b, key, u, ok)

SpecDispatchAndStatus == InitDispatchAndStatus /\ [][NextDispatchAndStatus]_vars

----------------------------------------------------------------------------
(* Tee-time repair: extract_tee_time_from_note (modules/utils/helpers.py),  *)
(* fix_all_tee_times (modules/database/bookings.py) and update_tee_times    *)
(* (fix_tee_times.py)                                                       *)

\* A note is NULL (or empty) or a sequence of lines; a line is the label
\* that ends in a colon and the text that follows it.
NoteLine(label, value) == [label |-> label, value |-> value]

\* str.lower() on the labels that occur.
Lower(label) ==
    CASE label \in {"Time:", "time:", "TIME:"} -> "time:"
      [] label \in {"Tee Time:", "tee time:", "TEE TIME:"} -> "tee time:"
      [] OTHER -> label

\* The text matches \d{1,2}:\d{2}\s*[AaPp][Mm].
IsTimeText(value) == value \in {"12:20 pm", "12:20 PM", "3:45 pm", "3:45 PM", "10:35 am", "10:35 AM"}

\* str.upper() on the time texts that occur.
Upper(value) ==
    CASE value = "12:20 pm" -> "12:20 PM"
      [] value = "3:45 pm" -> "3:45 PM"
      [] value = "10:35 am" -> "10:35 AM"
      [] OTHER -> value

\* The three patterns, in the order of the list.
NotePatterns == <<"Time:", "time:", "Tee Time:">>

\* re.search(pattern + time, line, re.IGNORECASE): the pattern may start
\* anywhere, so "Time:" is also found at the end of "Tee Time:".
PatternMatches(pattern, line) ==
    /\ IsTimeText(line.value)
    /\ IF Lower(pattern) = "time:" THEN Lower(line.label) \in {"time:", "tee time:"}
       ELSE Lower(line.label) = Lower(pattern)

\* The leftmost line of the note that the pattern matches, or 0.
Search(pattern, note) ==
    LET hits == {k \in 1..Len(note) : PatternMatches(pattern, note[k])}
    IN IF hits = {} THEN 0 ELSE CHOOSE k \in hits : \A j \in hits : k <= j

\* extract_tee_time_from_note: None (NULL), or the time of the first
\* pattern that matches, stripped and in upper case.
extract_tee_time_from_note(note_content) ==
    IF note_content = NULL THEN NULL
    ELSE LET found == {p \in 1..Len(NotePatterns) :
                          Search(NotePatterns[p], note_content) # 0}
         IN IF found = {} THEN NULL
            ELSE LET p == CHOOSE x \in found : \A y \in found : x <= y
                 IN Text(Upper(note_content[Search(NotePatterns[p],
                                                   note_content)].value))

\* A query without the condition on tee_time.
NeedsTeeTimeAny(row) == TRUE

\* WHERE tee_time IS NULL OR tee_time = 'Not Specified' OR tee_time = ''
NeedsTeeTime(row) == row.tee_time \in {NULL, Text("Not Specified"), Text("")}

\* UPDATEs that go to every row with a time in its note.
BackfillUpdateEveryRow(db, S, touch) ==
    [b \in DOMAIN db |->
        IF extract_tee_time_from_note(db[b].note) # NULL
        THEN [db[b] EXCEPT
                 !.tee_time = extract_tee_time_from_note(db[b].note),
                 !.updated_at = IF touch THEN Timestamp(today) ELSE @]
        ELSE db[b]]

\* The rows after the UPDATEs of one backfill run over the rows in S.
BackfillUpdate(db, S, touch) ==
    [b \in DOMAIN db |->
        IF b \in S /\ extract_tee_time_from_note(db[b].note) # NULL
        THEN [db[b] EXCEPT
                 !.tee_time = extract_tee_time_from_note(db[b].note),
                 !.updated_at = IF touch THEN Timestamp(today) ELSE @]
        ELSE db[b]]

\* The UPDATE statements a run had executed when it ended.
Executed(db, E) == {b \in E : extract_tee_time_from_note(db[b].note) # NULL}

\* A connection on which every UPDATE persists as it is executed.
TransactionOutcomeAutocommit(db, executed, committed) == executed

\* What a connection leaves in the table: its UPDATEs persist through
\* conn.commit() alone; an exception before it abandons the connection
\* with the transaction open, and the server rolls it back.
TransactionOutcome(db, executed, committed) ==
    IF committed THEN executed ELSE db

\* What a backfill run reports: (updated_count, not_found_count); an
\* exception is caught, nothing is committed and the counts are (0, 0).
\* executed is the number of UPDATEs the loop had issued by then.
\* A report that counts every selected row as updated.
BackfillReportAllUpdated(job, club_filter, db, S, E, db_ok) ==
    [job |-> job, club_filter |-> club_filter, ok |-> db_ok,
     executed |-> Cardinality(Executed(db, E)),
     updated_count |-> IF db_ok THEN Cardinality(S) ELSE 0,
     not_found_count |-> 0]

BackfillReport(job, club_filter, db, S, E, db_ok) ==
    [job |-> job, club_filter |-> club_filter, ok |-> db_ok,
     executed |-> Cardinality(Executed(db, E)),
     updated_count |->
        IF db_ok
        THEN Cardinality({b \in S : extract_tee_time_from_note(db[b].note) # NULL})
        ELSE 0,
     not_found_count |->
        IF db_ok
        THEN Cardinality({b \in S : extract_tee_time_from_note(db[b].note) = NULL})
        ELSE 0]

\* fix_all_tee_times(club_filter): the "Fix Tee Times" button, which clears
\* the cache when the job reports an update. E holds the rows the loop had
\* gone through when the run ended: all of them when it reached the commit,
\* any part of them when an exception ended it.
fix_all_tee_times(club_filter, db_ok) ==
    /\ Len(backfill) < MaxBackfillRuns
    /\ LET S == {b \in DOMAIN bookings :
                    bookings[b].club = club_filter /\ NeedsTeeTime(bookings[b])}
       IN \E E \in SUBSET S :
            /\ db_ok => E = S
            /\ LET report == BackfillReport("fix_all_tee_times", club_filter,
                                            bookings, S, E, db_ok)
               IN /\ bookings' = TransactionOutcome(bookings,
                                     BackfillUpdate(bookings, E, TRUE), db_ok)
                  /\ backfill' = Append(backfill, report)
                  /\ cache' = IF report.updated_count > 0
                              THEN [cache EXCEPT !["dashboard"] = <<>>]
                              ELSE cache
    /\ UNCHANGED <<today, existing_cols, nav, run, delivered, resolved, session>>

\* update_tee_times(): the script, over the bookings of every club.
update_tee_times(db_ok) ==
    /\ Len(backfill) < MaxBackfillRuns
    /\ LET S == {b \in DOMAIN bookings : NeedsTeeTime(bookings[b])}
       IN \E E \in SUBSET S :
            /\ db_ok => E = S
            /\ bookings' = TransactionOutcome(bookings,
                               BackfillUpdate(bookings, E, FALSE), db_ok)
            /\ backfill' = Append(backfill,
                  BackfillReport("update_tee_times", "", bookings, S, E, db_ok))
    /\ UNCHANGED <<today, existing_cols, cache, nav, run, delivered, resolved, session>>

TeeTimes == {NULL, Text(""), Text("Not Specified"), Text("TBD"), Text("10:35 AM")}

Notes == {NULL, <<NoteLine("time:", "12:20 pm")>>}

\* Tables whose rows differ in tee_time, note and club.
InitBackfill ==
    /\ today = 0
    /\ bookings \in
         [BookingIds ->
            {[NewBooking("Confirmed", PRE_ARRIVAL_DAYS, "guest@example.com", c)
                 EXCEPT !.tee_time = t, !.note = n] :
               c \in {Club, "other"}, t \in TeeTimes, n \in Notes}]
    /\ existing_cols = AllTrackingColumns
    /\ cache = [a \in Apps |-> <<>>]
    /\ nav = <<>>
    /\ run = IdleRuns
    /\ delivered = NoDeliveries
    /\ backfill = <<>>
    /\ resolved = <<>>
    /\ session = NoSessions

NextBackfill ==
    \/ \E db_ok \in BOOLEAN : fix_all_tee_times(Club, db_ok)
    \/ \E db_ok \in BOOLEAN : update_tee_times(db_ok)

SpecBackfill == InitBackfill /\ [][NextBackfill]_vars

----------------------------------------------------------------------------
(* The tee time of an e-mail: get_tee_time_from_booking *)

\* A value of selected_tee_times that is not None or empty. kind is how it
\* arrives: "dict" and "list" are objects, "json" is the text of a JSON
\* object, "gomap" is the text map[<key>:<value> ...], "deep" is a text of
\* brackets nested deeper than the interpreter's recursion limit, "plain"
\* is any other text. key and value are the one entry (or, for "plain" and
\* "deep", the whole text).
SelectedTeeTimes(kind, key, value) == <<[kind |-> kind, key |-> key, value |-> value]>>

\* The call did not return: the exception left the function.
Raised == <<"exception", "RecursionError">>

\* Python truth of a value that is None or a text.
Truthy(x) == x \notin {NULL, Text("")}

\* extract_tee_time_from_selected_tee_times: None (NULL), a text, or Raised.
extract_tee_time_from_selected_tee_times(selected_tee_times) ==
    IF selected_tee_times = NULL THEN NULL
    ELSE LET s == selected_tee_times[1]
         IN CASE s.kind = "dict" ->
                   \* selected_tee_times.get('time')
                   IF s.key = "time" THEN Text(s.value) ELSE NULL
              [] s.kind = "json" ->
                   \* json.loads gives a dict: data['time'] if the key is
                   \* there; the two regular expressions do not match the
                   \* text of a JSON object.
                   IF s.key = "time" THEN Text(s.value) ELSE NULL
              [] s.kind = "gomap" ->
                   \* re.search(r'time:(\d{1,2}:\d{2}\s*[AaPp][Mm])'), case
                   \* sensitive, group(1).strip(), case kept.
                   IF s.key = "time" /\ IsTimeText(s.value)
                   THEN Text(s.value) ELSE NULL
              [] s.kind = "deep" ->
                   \* json.loads raises RecursionError, which is neither
                   \* JSONDecodeError nor ValueError.
                   Raised
              [] s.kind = "plain" ->
                   \* json.loads raises JSONDecodeError, which is caught;
                   \* re.match of the time pattern: the text as it is.
                   IF IsTimeText(s.value) THEN Text(s.value) ELSE NULL
              [] OTHER -> NULL    \* a list is neither a dict nor a str

\* get_tee_time_from_booking(booking): the tee_time column if it is truthy,
\* else selected_tee_times, else the note, else 'TBD'.
get_tee_time_from_booking(booking) ==
    IF Truthy(booking.tee_time) THEN booking.tee_time
    ELSE IF extract_tee_time_from_selected_tee_times(booking.selected_tee_times) = Raised
    THEN Raised
    ELSE IF Truthy(extract_tee_time_from_selected_tee_times(booking.selected_tee_times))
    THEN extract_tee_time_from_selected_tee_times(booking.selected_tee_times)
    ELSE IF Truthy(extract_tee_time_from_note(booking.note))
    THEN extract_tee_time_from_note(booking.note)
    ELSE Text("TBD")

\* tee_time_value = get_tee_time_from_booking(booking) of a send function.
ResolveTeeTime(booking) ==
    /\ resolved' = <<[booking |-> booking,
                      tee_time |-> get_tee_time_from_booking(booking)]>>
    /\ UNCHANGED <<today, bookings, existing_cols, cache, nav, run, delivered, backfill, session>>

ResolverTeeTimes == {NULL, Text(""), Text("Not Specified"), Text("TBD"), Text("8:10 AM")}

ResolverSelected ==
    {NULL,
     SelectedTeeTimes("dict", "time", "10:35 AM"),
     SelectedTeeTimes("dict", "course", "Blue"),
     SelectedTeeTimes("list", "time", "10:35 AM"),
     SelectedTeeTimes("json", "time", "10:35 AM"),
     SelectedTeeTimes("gomap", "time", "10:35 am"),
     SelectedTeeTimes("gomap", "Time", "10:35 AM"),
     SelectedTeeTimes("plain", "", "10:35 AM"),
     SelectedTeeTimes("plain", "", "morning"),
     SelectedTeeTimes("deep", "", "[[[[...")}

ResolverNotes ==
    {NULL,
     <<NoteLine("Tee Time:", "3:45 PM")>>,
     <<NoteLine("Time:", "12:20 pm")>>,
     <<NoteLine("Time:", "12:20 pm"), NoteLine("Tee Time:", "3:45 PM")>>,
     <<NoteLine("Tee Time:", "3:45 PM"), NoteLine("Time:", "12:20 pm")>>,
     <<NoteLine("Booked by:", "reservations")>>}

\* The booking dicts a send function may be handed.
ResolverBookings ==
    [tee_time : ResolverTeeTimes,
     selected_tee_times : ResolverSelected,
     note : ResolverNotes]

InitResolve ==
    /\ today = 0
    /\ bookings = <<>>
    /\ existing_cols = AllTrackingColumns
    /\ cache = [a \in Apps |-> <<>>]
    /\ nav = <<>>
    /\ run = IdleRuns
    /\ delivered = NoDeliveries
    /\ backfill = <<>>
    /\ resolved = <<>>
    /\ session = NoSessions

NextResolve == \E booking \in ResolverBookings : ResolveTeeTime(booking)

SpecResolve == InitResolve /\ [][NextResolve]_vars

\* dynamic_data['tee_time'] of a send function. customer_journey_marketing_logic
\* calls the resolver; the journey page takes
\* booking.get('tee_time') or booking.get('selected_tee_times') or 'TBD'.
\* form tells a text from the raw value of the selected_tee_times column;
\* a column that holds a plain text is sent as that text.
payload_tee_time(module, booking) ==
    IF module = "logic"
    THEN [form |-> "text", value |-> get_tee_time_from_booking(booking)]
    ELSE IF Truthy(booking.tee_time)
    THEN [form |-> "text", value |-> booking.tee_time]
    ELSE IF booking.selected_tee_times = NULL
    THEN [form |-> "text", value |-> Text("TBD")]
    ELSE IF booking.selected_tee_times[1].kind \in {"plain", "deep"}
    THEN [form |-> "text", value |-> Text(booking.selected_tee_times[1].value)]
    ELSE [form |-> "selected_tee_times", value |-> booking.selected_tee_times]

\* A send function builds the template data of its e-mail.
BuildDynamicData(module, email_type, booking) ==
    /\ resolved' = <<[module |-> module, email_type |-> email_type,
                      booking |-> booking,
                      payload |-> payload_tee_time(module, booking)]>>
    /\ UNCHANGED <<today, bookings, existing_cols, cache, nav, run, delivered, backfill, session>>

NextPayload ==
    \E module \in {"logic", "page"}, email_type \in EventTypes, booking \in ResolverBookings :
        BuildDynamicData(module, email_type, booking)

SpecPayload == InitResolve /\ [][NextPayload]_vars

----------------------------------------------------------------------------
(* The transition table of the workflow, as the specification states it *)

\* Pending is the alias of Inquiry.
Canonical(status) == IF status = "Pending" THEN "Inquiry" ELSE status

TransitionTable(current) ==
    CASE current \in {"Inquiry", "Pending"} -> {"Requested", "Rejected"}
      [] current = "Requested" -> {"Confirmed", "Inquiry", "Rejected"}
      [] current = "Confirmed" -> {"Booked", "Requested", "Rejected"}
      [] current = "Booked"    -> {"Cancelled", "Confirmed"}
      [] current = "Rejected"  -> {"Inquiry"}
      [] current = "Cancelled" -> {"Inquiry"}
      [] OTHER -> {}

\* C1: for every current status of the workflow the card offers exactly the
\* targets of the transition table, each button passing the target of its
\* label, and offers no other target.
C1_TransitionCompleteness ==
    nav # <<>> =>
        /\ nav[1].current_status \in Statuses
        /\ \A target \in Statuses \cup {"Waiting", "Converted"} :
              (\E key \in nav[1].buttons : ButtonTarget(key) = target)
                  <=> target \in TransitionTable(nav[1].current_status)

C1_Witness ==
    /\ nav # <<>>
    /\ nav[1].current_status = "Booked"
    /\ nav[1].buttons = {"nav_back_conf", "nav_cancel"}

\* C2: every change of a stored status goes from the previous stored status
\* to a target the transition table allows for it.
C2_OnlyAllowedTransitionsStored ==
    [][\A b \in DOMAIN bookings \cap DOMAIN bookings' :
          Canonical(bookings'[b].status) # Canonical(bookings[b].status)
              => bookings'[b].status \in TransitionTable(bookings[b].status)]_vars

\* C7: every stored booking has one of the defined statuses.
C7_StatusInEnum ==
    \A b \in DOMAIN bookings : bookings[b].status \in Statuses

C7_Witness ==
    \E b \in DOMAIN bookings :
        /\ bookings[b].date = PRE_ARRIVAL_DAYS + 1
        /\ bookings[b].updated_by \in Users
        /\ bookings[b].status = "Cancelled"

----------------------------------------------------------------------------
(* Properties of selection and dispatch *)

Ids(rows) == {rows[k].booking_id : k \in 1..Len(rows)}

Marker(b, email_type) ==
    IF email_type = "pre_arrival" THEN bookings[b].pre_arrival_email_sent_at
    ELSE bookings[b].post_play_email_sent_at

\* C3: once a send to a booking has succeeded for an event type, no
\* selection for that event type, in default or show-all mode, returns the
\* booking again.
C3_NoDoubleNotify ==
    \A r \in Runs : \A j \in 1..Len(run[r].results) :
        run[r].results[j].status = "sent" =>
            LET b == run[r].results[j].booking_id
                e == run[r].email_type
            IN /\ b \notin Ids(LogicSelect(e, Club))
               /\ \A show_all \in BOOLEAN : b \notin Ids(PageSelect(e, show_all))

\* C4: two runs for the same event type are never both between an accepted
\* send and its mark for the same booking.
C4_NoConcurrentDoubleSend ==
    \A r1, r2 \in Runs :
        (/\ r1 # r2
         /\ run[r1].pc = "mark" /\ run[r2].pc = "mark"
         /\ ~run[r1].resend /\ ~run[r2].resend
         /\ run[r1].email_type = run[r2].email_type)
        => run[r1].queue[run[r1].i].booking_id # run[r2].queue[run[r2].i].booking_id

\* C5: a batch gives every selected booking one result in order, counts
\* each as sent or failed, goes on after a failure, explains a missing
\* guest_email, and leaves every booking reported as sent marked.
C5_BatchIsolation ==
    LET rr == run[1] IN
    (rr.pc # "idle" /\ ~rr.dry_run) =>
        /\ Len(rr.results) = (IF rr.pc = "done" THEN Len(rr.queue) ELSE rr.i - 1)
        /\ rr.sent_count + rr.failed_count = Len(rr.results)
        /\ rr.sent_count =
              Cardinality({k \in 1..Len(rr.results) : rr.results[k].status = "sent"})
        /\ \A k \in 1..Len(rr.results) :
              /\ rr.results[k].booking_id = rr.queue[k].booking_id
              /\ rr.results[k].status \in {"sent", "failed"}
              /\ (rr.configured /\ rr.queue[k].guest_email = "")
                    => /\ rr.results[k].status = "failed"
                       /\ rr.results[k].message = "Missing guest_email"
              /\ (rr.results[k].status = "sent"
                  /\ TrackingColumn(rr.email_type) \in existing_cols)
                    => Marker(rr.results[k].booking_id, rr.email_type) # NULL

C5_Witness ==
    LET rr == run[1] IN
    /\ rr.pc = "done" /\ ~rr.dry_run
    /\ Len(rr.queue) = 3
    /\ rr.results[1].status = "sent"
    /\ rr.results[2].status = "failed"
    /\ rr.results[2].message = "Missing guest_email"
    /\ rr.results[3].status = "sent"
    /\ rr.sent_count = 2 /\ rr.failed_count = 1
    /\ Marker(rr.queue[1].booking_id, rr.email_type) # NULL
    /\ Marker(rr.queue[2].booking_id, rr.email_type) = NULL
    /\ Marker(rr.queue[3].booking_id, rr.email_type) # NULL

\* C6: a step writes a marker only for the booking and event type of a run
\* whose send in that attempt the provider has accepted.
C6_MarkOnlyAfterAcceptedSend ==
    [][\A b \in DOMAIN bookings : \A e \in EventTypes :
          (IF e = "pre_arrival"
           THEN bookings'[b].pre_arrival_email_sent_at
                    # bookings[b].pre_arrival_email_sent_at
           ELSE bookings'[b].post_play_email_sent_at
                    # bookings[b].post_play_email_sent_at)
          => \E r \in Runs :
                /\ run[r].pc = "mark"
                /\ run[r].accepted
                /\ run[r].email_type = e
                /\ run[r].queue[run[r].i].booking_id = b
                /\ delivered[b][e] >= 1]_vars

C6_Witness ==
    \E b \in DOMAIN bookings, e \in EventTypes :
        Marker(b, e) # NULL /\ delivered[b][e] = 1

\* C8: a pre-arrival selection in default mode holds only bookings that
\* are Confirmed and play exactly PRE_ARRIVAL_DAYS days from today; in
\* show-all mode it holds every Confirmed booking of the club that plays
\* after today, and only Confirmed bookings that play today or later.
C8_ExactDateSelection ==
    [][\A r \in Runs :
          (run[r].pc = "idle" /\ run'[r].pc # "idle"
           /\ run'[r].email_type = "pre_arrival")
          => LET sel == run'[r].sel IN
             IF run'[r].show_all
             THEN /\ \A b \in DOMAIN bookings :
                        (/\ bookings[b].status = "Confirmed"
                         /\ bookings[b].club = Club
                         /\ bookings[b].date > today) => b \in Ids(sel)
                  /\ \A k \in 1..Len(sel) :
                        /\ bookings[sel[k].booking_id].status = "Confirmed"
                        /\ sel[k].play_date >= today
             ELSE \A k \in 1..Len(sel) :
                     /\ bookings[sel[k].booking_id].status = "Confirmed"
                     /\ sel[k].play_date = today + PRE_ARRIVAL_DAYS]_vars

C8_Witness ==
    \E r \in Runs, b \in DOMAIN bookings :
        /\ run[r].pc # "idle"
        /\ run[r].email_type = "pre_arrival"
        /\ ~run[r].show_all
        /\ run[r].sel # <<>>
        /\ bookings[b].status = "Confirmed"
        /\ bookings[b].date = today + PRE_ARRIVAL_DAYS + 1
        /\ b \notin Ids(run[r].sel)
        /\ b \in Ids(PageSelect("pre_arrival", TRUE))

\* C9: a selection made without a resend request holds no booking whose
\* marker for the event type is set.
C9_SelectionExcludesSent ==
    \A r \in Runs :
        (run[r].pc # "idle" /\ ~run[r].show_all /\ ~run[r].resend)
        => \A k \in 1..Len(run[r].sel) : run[r].sel[k].sent_at = NULL

\* C10: a show-all bulk send of the page is no resend, and no send of it
\* that the provider accepts goes to a booking whose marker for the event
\* type is set.
C10_ShowAllBulkSkipsSent ==
    [][\A r \in Runs :
          (/\ run[r].pc = "send" /\ run[r].module = "page"
           /\ run[r].show_all /\ run[r].bulk)
          => LET b == run[r].queue[run[r].i].booking_id
                 e == run[r].email_type
             IN /\ ~run[r].resend
                /\ delivered'[b][e] > delivered[b][e] => Marker(b, e) = NULL]_vars

C10_Witness ==
    \E r \in Runs :
        /\ run[r].pc = "done" /\ run[r].module = "page"
        /\ run[r].show_all /\ run[r].bulk
        /\ run[r].sent_count = 1
        /\ Len(run[r].sel) = 2 /\ Len(run[r].queue) = 1
        /\ \E k \in 1..2 :
              /\ run[r].sel[k].sent_at # NULL
              /\ delivered[run[r].sel[k].booking_id][run[r].email_type] = 0

\* C11: whatever the module, the mode and the event type, a selection holds
\* only bookings whose status is Confirmed.
C11_OnlyConfirmedSelected ==
    [][\A r \in Runs :
          (run[r].pc = "idle" /\ run'[r].pc # "idle")
          => \A k \in 1..Len(run'[r].sel) :
                bookings[run'[r].sel[k].booking_id].status = "Confirmed"]_vars

C11_Witness ==
    \E r \in Runs, b \in DOMAIN bookings :
        /\ run[r].pc # "idle"
        /\ run[r].module = "page"
        /\ run[r].email_type = "post_play"
        /\ run[r].show_all
        /\ run[r].sel # <<>>
        /\ bookings[b].status = "Requested"
        /\ bookings[b].date = today - POST_PLAY_DAYS
        /\ b \notin Ids(run[r].sel)

\* C12: a post-play selection in default mode holds only bookings that
\* played exactly POST_PLAY_DAYS days before today; in show-all mode it
\* holds only Confirmed bookings that played within the last
\* RecentWindowDays days, none earlier and none that has yet to play.
C12_PostPlayWindow ==
    [][\A r \in Runs :
          (run[r].pc = "idle" /\ run'[r].pc # "idle"
           /\ run'[r].email_type = "post_play")
          => \A k \in 1..Len(run'[r].sel) :
                LET row == run'[r].sel[k] IN
                IF run'[r].show_all
                THEN /\ bookings[row.booking_id].status = "Confirmed"
                     /\ row.play_date >= today - RecentWindowDays
                     /\ row.play_date <= today
                ELSE row.play_date = today - POST_PLAY_DAYS]_vars

\* The selection a run of the same kind as rr would make now.
SelectAgain(rr) ==
    IF rr.module = "logic" THEN LogicSelect(rr.email_type, Club)
    ELSE PageSelect(rr.email_type, rr.show_all)

\* C13: when the provider call of a send fails (it raises, or answers with
\* a status other than 200/202), the item gets a failed result with a
\* reason, no row changes, the marker of a booking that was not being
\* resent is still null, and the next selection for the event holds the
\* booking again.
C13_ProviderFailureRetryable ==
    [][\A r \in Runs :
          (/\ run[r].pc = "send" /\ run'[r] # run[r]
           /\ Validate(run[r].queue[run[r].i], run[r].configured) = ""
           /\ delivered' = delivered)
          => LET rr == run[r]
                 b == rr.queue[rr.i].booking_id
                 n == Len(rr.results) + 1
             IN /\ Len(run'[r].results) = n
                /\ run'[r].results[n].booking_id = b
                /\ run'[r].results[n].status = "failed"
                /\ run'[r].results[n].message \in {"Error", "SendGrid error"}
                /\ run'[r].failed_count = rr.failed_count + 1
                /\ bookings' = bookings
                /\ ~rr.resend => Marker(b, rr.email_type) = NULL
                /\ b \in Ids(SelectAgain(rr))]_vars

C13_Witness ==
    \E r \in Runs :
        /\ run[r].module = "logic" /\ run[r].pc = "done"
        /\ TrackingColumn(run[r].email_type) \in existing_cols
        /\ Len(run[r].results) = 2
        /\ run[r].results[1].message = "SendGrid error"
        /\ run[r].results[2].message = "Error"
        /\ \A k \in 1..2 :
              LET b == run[r].results[k].booking_id IN
              /\ delivered[b][run[r].email_type] = 0
              /\ Marker(b, run[r].email_type) = NULL
              /\ b \in Ids(LogicSelect(run[r].email_type, Club))

RequiredFields == {"booking_id", "guest_email", "play_date"}

\* The reason names a field that the row lacks.
NamesMissingField(message, row) ==
    \/ message = "Missing booking_id" /\ MissingField(row, "booking_id")
    \/ message = "Missing guest_email" /\ MissingField(row, "guest_email")
    \/ message = "Missing play_date" /\ MissingField(row, "play_date")

\* The send of run r for a row that lacks a required field fails locally:
\* a failed result for the item, nothing sent, no row changed, and the run
\* goes on to its next item.
LocalFailure(r) ==
    LET rr == run[r]
        n == Len(rr.results) + 1
    IN /\ Len(run'[r].results) = n
       /\ run'[r].results[n].status = "failed"
       /\ run'[r].failed_count = rr.failed_count + 1
       /\ run'[r].sent_count = rr.sent_count
       /\ delivered' = delivered
       /\ bookings' = bookings
       /\ run'[r].i = rr.i + 1
       /\ run'[r].pc = (IF rr.i < Len(rr.queue) THEN "send" ELSE "done")

\* C14 as stated: a send for a booking that lacks booking_id, guest_email
\* or play_date fails locally with a reason that names a missing field.
C14_MissingFieldNamed ==
    [][\A r \in Runs :
          (/\ run[r].pc = "send" /\ run'[r] # run[r]
           /\ \E f \in RequiredFields : MissingField(run[r].queue[run[r].i], f))
          => /\ LocalFailure(r)
             /\ NamesMissingField(run'[r].results[Len(run'[r].results)].message,
                                  run[r].queue[run[r].i])]_vars

\* C14, amended: such a send always fails locally; its reason names a
\* missing field when the sender is configured, and is the configuration
\* error when it is not.
C14_MissingFieldFailsLocally ==
    [][\A r \in Runs :
          (/\ run[r].pc = "send" /\ run'[r] # run[r]
           /\ \E f \in RequiredFields : MissingField(run[r].queue[run[r].i], f))
          => LET message == run'[r].results[Len(run'[r].results)].message
             IN /\ LocalFailure(r)
                /\ IF run[r].configured
                   THEN NamesMissingField(message, run[r].queue[run[r].i])
                   ELSE message = "SendGrid not configured"]_vars

C14_Witness ==
    LET rr == run[1] IN
    /\ rr.pc = "done" /\ rr.configured /\ rr.bulk
    /\ Len(rr.queue) = 2
    /\ rr.queue[1].guest_email = ""
    /\ rr.results[1].message = "Missing guest_email"
    /\ rr.results[2].status = "sent"
    /\ delivered[rr.queue[1].booking_id][rr.email_type] = 0
    /\ Marker(rr.queue[1].booking_id, rr.email_type) = NULL
    /\ Marker(rr.queue[2].booking_id, rr.email_type) # NULL

\* C15: in a batch whose sender lacks its credentials or template id every
\* processed item is reported as failed with the configuration error,
\* nothing is sent, every booking of the batch gets its result, and no
\* step of the batch changes a booking row.
C15_ConfigErrorFailsAll ==
    [][\A r \in Runs :
          (run'[r].pc # "idle" /\ ~run'[r].configured /\ ~run'[r].dry_run)
          => /\ bookings' = bookings
             /\ delivered' = delivered
             /\ run'[r].sent_count = 0
             /\ run'[r].failed_count = Len(run'[r].results)
             /\ \A k \in 1..Len(run'[r].results) :
                   /\ run'[r].results[k].booking_id = run'[r].queue[k].booking_id
                   /\ run'[r].results[k].status = "failed"
                   /\ run'[r].results[k].message = "SendGrid not configured"
             /\ run'[r].pc = "done"
                   => Len(run'[r].results) = Len(run'[r].queue)]_vars

C15_Witness ==
    LET rr == run[1] IN
    /\ rr.pc = "done" /\ ~rr.configured /\ ~rr.dry_run
    /\ Len(rr.queue) = 3
    /\ rr.failed_count = 3
    /\ \A b \in DOMAIN bookings : \A e \in EventTypes :
          Marker(b, e) = NULL /\ delivered[b][e] = 0

\* C16: when the tracking column of the event is missing, the mark after an
\* accepted send writes no row and ends in a result (a success, or the
\* caught database error), and every such success comes with a warning to
\* the caller.
C16_MissingColumnWarns ==
    [][\A r \in Runs :
          (/\ run[r].pc = "mark" /\ run'[r] # run[r]
           /\ TrackingColumn(run[r].email_type) \notin existing_cols)
          => LET n == Len(run[r].results) + 1 IN
             /\ bookings' = bookings
             /\ Len(run'[r].results) = n
             /\ \/ run'[r].results[n].status = "sent"
                \/ run'[r].results[n].message = "Error"
             /\ run'[r].results[n].status = "sent" => run'[r].warned]_vars

\* C17: after a batch was stopped between two items, every booking it
\* reported as sent has its marker (where the tracking column exists),
\* and every booking it had not yet come to has a null marker, has been
\* sent nothing, and is in the selection the next run makes.
C17_AbortLeavesConsistentState ==
    \A r \in Runs :
        run[r].pc = "aborted" =>
            LET rr == run[r] IN
            /\ Len(rr.results) = rr.i - 1
            /\ \A k \in 1..Len(rr.results) :
                  (/\ rr.results[k].status = "sent"
                   /\ TrackingColumn(rr.email_type) \in existing_cols)
                  => Marker(rr.results[k].booking_id, rr.email_type) # NULL
            /\ \A k \in rr.i..Len(rr.queue) :
                  LET b == rr.queue[k].booking_id IN
                  /\ Marker(b, rr.email_type) = NULL
                  /\ delivered[b][rr.email_type] = 0
                  /\ b \in Ids(SelectAgain(rr))

C17_Witness ==
    LET rr == run[1] IN
    /\ rr.pc = "aborted"
    /\ Len(rr.queue) = 3 /\ rr.i = 2
    /\ rr.results[1].status = "sent"
    /\ Marker(rr.queue[1].booking_id, rr.email_type) # NULL
    /\ Marker(rr.queue[2].booking_id, rr.email_type) = NULL
    /\ Marker(rr.queue[3].booking_id, rr.email_type) = NULL
    /\ Ids(SelectAgain(rr)) = {rr.queue[2].booking_id, rr.queue[3].booking_id}

\* C18: a backfill run that directly follows a completed run of the same
\* job for the same club reports updated_count = 0 and changes no booking.
C18_BackfillIdempotent ==
    [][(Len(backfill) >= 1 /\ Len(backfill') = Len(backfill) + 1)
          => LET first == backfill[Len(backfill)]
                 second == backfill'[Len(backfill')]
             IN (/\ first.ok
                 /\ second.job = first.job
                 /\ second.club_filter = first.club_filter)
                => /\ second.updated_count = 0
                   /\ bookings' = bookings]_vars

C18_Witness ==
    /\ Len(backfill) = 2
    /\ backfill[1].job = backfill[2].job
    /\ backfill[1].ok /\ backfill[2].ok
    /\ backfill[1].updated_count >= 1
    /\ backfill[2].updated_count = 0
    /\ backfill[2].not_found_count >= 1
    /\ \E b \in DOMAIN bookings : bookings[b].tee_time = Text("12:20 PM")

\* A tee_time that is a value: not NULL, not empty and not a sentinel.
ConcreteTeeTime(tee_time) ==
    tee_time \notin {NULL, Text(""), Text("Not Specified"), Text("TBD")}

\* C19: no backfill run changes any field of a booking whose tee_time is
\* a concrete value.
C19_BackfillKeepsConcrete ==
    [][Len(backfill') = Len(backfill) + 1
          => \A b \in DOMAIN bookings :
                ConcreteTeeTime(bookings[b].tee_time)
                    => bookings'[b] = bookings[b]]_vars

C19_Witness ==
    /\ Len(backfill) >= 1
    /\ backfill[1].ok /\ backfill[1].updated_count >= 1
    /\ \E b \in DOMAIN bookings :
          /\ bookings[b].tee_time = Text("10:35 AM")
          /\ bookings[b].club = Club
          /\ extract_tee_time_from_note(bookings[b].note) = Text("12:20 PM")
          /\ bookings[b].updated_at = NULL

\* The strings that stand for "tee time unknown".
Sentinels == {Text("Not Specified"), Text("TBD")}

\* The source gave a time: not None, not empty and not a sentinel.
YieldsTime(x) == Truthy(x) /\ x \notin Sentinels /\ x # Raised

\* C20: the resolver returns the value of the first source, in the order
\* tee_time column, selected_tee_times, note, that yields a time, and a
\* sentinel if none does (for the calls that return).
C20_ResolverPriority ==
    (resolved # <<>> /\ resolved[1].tee_time # Raised) =>
        LET booking == resolved[1].booking
            result == resolved[1].tee_time
            from_selected ==
                extract_tee_time_from_selected_tee_times(booking.selected_tee_times)
            from_note == extract_tee_time_from_note(booking.note)
        IN IF YieldsTime(booking.tee_time) THEN result = booking.tee_time
           ELSE IF YieldsTime(from_selected) THEN result = from_selected
           ELSE IF YieldsTime(from_note) THEN result = from_note
           ELSE result \in Sentinels

\* C21: when the tee_time column holds a sentinel, the resolver goes on to
\* selected_tee_times and then the note, and returns a sentinel only if
\* neither yields a time.
C21_SentinelColumnSkipped ==
    (resolved # <<>> /\ resolved[1].booking.tee_time \in Sentinels) =>
        LET booking == resolved[1].booking
            result == resolved[1].tee_time
            from_selected ==
                extract_tee_time_from_selected_tee_times(booking.selected_tee_times)
            from_note == extract_tee_time_from_note(booking.note)
        IN /\ YieldsTime(from_selected) => result = from_selected
           /\ (~YieldsTime(from_selected) /\ YieldsTime(from_note))
                 => result = from_note

\* C22: with no tee_time in the column, a selected_tee_times that is an
\* object or a list of round entries resolves to the time field of the
\* object, or of the first entry of the list.
C22_StructuredSelected ==
    (resolved # <<>> /\ ~Truthy(resolved[1].booking.tee_time)
                    /\ resolved[1].booking.selected_tee_times # NULL) =>
        LET entry == resolved[1].booking.selected_tee_times[1]
        IN (entry.kind \in {"dict", "list"} /\ entry.key = "time"
                                            /\ Truthy(Text(entry.value)))
              => resolved[1].tee_time = Text(entry.value)

\* The first line of the note with this label (in any case) and a time, or 0.
FirstLabelled(note, label) ==
    LET hits == {k \in 1..Len(note) :
                    Lower(note[k].label) = label /\ IsTimeText(note[k].value)}
    IN IF hits = {} THEN 0 ELSE CHOOSE k \in hits : \A j \in hits : k <= j

\* C23: when the note is the source, the time after a "Tee Time:" label is
\* returned if there is one, else the time after a bare "Time:" label, in
\* upper case.
C23_TeeTimeLabelFirst ==
    (/\ resolved # <<>>
     /\ ~Truthy(resolved[1].booking.tee_time)
     /\ ~Truthy(extract_tee_time_from_selected_tee_times(
                   resolved[1].booking.selected_tee_times))
     /\ resolved[1].booking.note # NULL) =>
        LET note == resolved[1].booking.note
            tee == FirstLabelled(note, "tee time:")
            bare == FirstLabelled(note, "time:")
        IN IF tee # 0 THEN resolved[1].tee_time = Text(Upper(note[tee].value))
           ELSE bare # 0 => resolved[1].tee_time = Text(Upper(note[bare].value))

\* C24: every call of the resolver returns a value, and that value is a
\* sentinel when neither the column nor selected_tee_times nor the note
\* yields a time.
C24_ResolverTotal ==
    resolved # <<>> =>
        LET booking == resolved[1].booking
            from_selected ==
                extract_tee_time_from_selected_tee_times(booking.selected_tee_times)
            from_note == extract_tee_time_from_note(booking.note)
        IN /\ resolved[1].tee_time # Raised
           /\ (~YieldsTime(booking.tee_time) /\ ~YieldsTime(from_selected)
                                             /\ ~YieldsTime(from_note))
                 => resolved[1].tee_time \in Sentinels

\* C25: the tee_time of the template data of every e-mail is the result of
\* the resolver for that booking, never the raw selected_tee_times.
C25_PayloadIsResolved ==
    (resolved # <<>> /\ get_tee_time_from_booking(resolved[1].booking) # Raised) =>
        /\ resolved[1].payload.form = "text"
        /\ resolved[1].payload.value = get_tee_time_from_booking(resolved[1].booking)

\* C26: a selection, in either module, for either event type and in either
\* mode, changes no field of any booking and adds or removes none.
C26_SelectionReadOnly ==
    [][\A r \in Runs :
          (run[r].pc = "idle" /\ run'[r].pc # "idle") => bookings' = bookings]_vars

C26_Witness ==
    \E r \in Runs :
        /\ run[r].pc = "send"
        /\ run[r].i = 1
        /\ run[r].results = <<>>
        /\ run[r].show_all
        /\ Len(run[r].sel) = NumBookings
        /\ \A b \in DOMAIN bookings : bookings[b].updated_at = NULL
        /\ \E b \in DOMAIN bookings : Marker(b, run[r].email_type) # NULL

\* The row with the marker of the event type set to now.
WithMarker(row, email_type) ==
    IF email_type = "pre_arrival"
    THEN [row EXCEPT !.pre_arrival_email_sent_at = Timestamp(today)]
    ELSE [row EXCEPT !.post_play_email_sent_at = Timestamp(today)]

\* C27: a step of scheduling or dispatch neither adds nor removes a booking,
\* and a booking it changes is the one whose send just succeeded, changed
\* only in the marker of the dispatched event type.
C27_DispatchWritesOnlyItsMarker ==
    [][/\ DOMAIN bookings' = DOMAIN bookings
       /\ \A b \in DOMAIN bookings :
             bookings'[b] # bookings[b]
             => \E r \in Runs :
                   /\ run[r].pc = "mark"
                   /\ run[r].accepted
                   /\ run[r].queue[run[r].i].booking_id = b
                   /\ bookings'[b] = WithMarker(bookings[b], run[r].email_type)]_vars

C27_Witness ==
    \E r \in Runs, b \in DOMAIN bookings :
        /\ run[r].email_type = "pre_arrival"
        /\ \E k \in 1..Len(run[r].results) :
              /\ run[r].results[k].booking_id = b
              /\ run[r].results[k].status = "sent"
        /\ bookings[b].pre_arrival_email_sent_at = Timestamp(today)
        /\ bookings[b].post_play_email_sent_at = Timestamp(today - 1)
        /\ bookings[b].status = "Confirmed"

\* C28: the bookings that one backfill run changes all belong to the one
\* club the run is for.
C28_BackfillWithinOneClub ==
    [][Len(backfill') = Len(backfill) + 1
          => \E c \in {Club, "other"} :
                \A b \in DOMAIN bookings :
                    bookings'[b] # bookings[b] => bookings[b].club = c]_vars

\* The table with status, updated_by and updated_at of one booking written
\* and nothing else changed.
StatusTriple(db, b, new_status, updated_by) ==
    [db EXCEPT ![b] = [db[b] EXCEPT !.status = new_status,
                                     !.updated_by = updated_by,
                                     !.updated_at = Timestamp(today)]]

\* C29: a status update that returns True has written status, updated_by
\* and updated_at of the one booking and nothing else; one that returns
\* False has changed nothing.
C29_StatusUpdateFrame ==
    [][/\ \A b \in StatusIds, key \in NavKeys, u \in Users, ok \in BOOLEAN :
             DashboardClick(b, key, u, ok)
             => bookings' = IF ok THEN StatusTriple(bookings, b, ButtonTarget(key), u)
                            ELSE bookings
       /\ \A b \in StatusIds, s \in Statuses, u \in Users, ok \in BOOLEAN :
             ExampleClick(b, s, u, ok)
             => bookings' = IF ok THEN StatusTriple(bookings, b, s, u)
                            ELSE bookings]_vars

C29_Witness ==
    \E b \in DOMAIN bookings :
        /\ bookings[b].status = "Booked"
        /\ bookings[b].updated_by \in Users
        /\ bookings[b].updated_at = Timestamp(today)
        /\ bookings[b].date = PRE_ARRIVAL_DAYS
        /\ bookings[b].club = Club
        /\ bookings[b].tee_time = NULL
        /\ cache["dashboard"] = <<>>

\* The statuses that a booking in one of the statuses of S can be given by
\* at most n clicks on the buttons its card shows.
RECURSIVE ReachableByButtons(_, _)
ReachableByButtons(S, n) ==
    IF n = 0 THEN S
    ELSE ReachableByButtons(
             S \cup {ButtonTarget(key) : key \in UNION {NavButtons(s) : s \in S}},
             n - 1)

\* C30: whatever the status of the booking, its card shows at least one
\* button, a Rejected or Cancelled booking has the button that restores it
\* to Inquiry, and Inquiry can be reached by a sequence of button clicks.
C30_NoTerminalStatus ==
    nav # <<>> =>
        /\ nav[1].buttons # {}
        /\ nav[1].current_status \in {"Rejected", "Cancelled"}
              => \E key \in nav[1].buttons : ButtonTarget(key) = "Inquiry"
        /\ "Inquiry" \in ReachableByButtons({ButtonTarget(key) : key \in nav[1].buttons},
                                            Cardinality(Statuses))

C30_Witness ==
    /\ nav # <<>>
    /\ nav[1].current_status = "Cancelled"
    /\ nav[1].buttons = {"nav_restore"}
    /\ \E b \in DOMAIN bookings :
          /\ bookings[b].status = "Cancelled"
          /\ bookings[b].updated_by \in Users

\* The bookings of the club whose tee_time is null, empty or 'Not Specified'.
MissingTeeTime(db, club) ==
    {b \in DOMAIN db :
        db[b].club = club /\ db[b].tee_time \in {NULL, Text(""), Text("Not Specified")}}

\* C31: a completed run of the club's backfill writes the time of the note
\* to every booking of the club that lacks a tee_time and has a time in its
\* note, leaves every other booking as it was, and reports the number of
\* the former and the number of those that lack a tee_time and have no
\* time in the note; the two counts add up to the number that lack one.
C31_BackfillSelectsAndCounts ==
    [][Len(backfill') = Len(backfill) + 1
          => LET report == backfill'[Len(backfill')]
                 selected == MissingTeeTime(bookings, report.club_filter)
                 found == {b \in selected :
                              extract_tee_time_from_note(bookings[b].note) # NULL}
             IN (report.job = "fix_all_tee_times" /\ report.ok)
                => /\ \A b \in found :
                         bookings'[b].tee_time =
                             extract_tee_time_from_note(bookings[b].note)
                   /\ \A b \in DOMAIN bookings \ found : bookings'[b] = bookings[b]
                   /\ report.updated_count = Cardinality(found)
                   /\ report.not_found_count = Cardinality(selected \ found)
                   /\ report.updated_count + report.not_found_count
                         = Cardinality(selected)]_vars

C31_Witness ==
    /\ Len(backfill) = 1
    /\ backfill[1].job = "fix_all_tee_times"
    /\ backfill[1].ok
    /\ backfill[1].updated_count = 1
    /\ backfill[1].not_found_count = 1
    /\ \E b \in DOMAIN bookings :
          bookings[b].tee_time = Text("Not Specified") /\ bookings[b].note = NULL

\* C32: a dry run is over as soon as it has selected: both counts are 0,
\* there is one 'would_send' result for each selected booking, in order,
\* no e-mail was sent and no marker was written.
C32_DryRunSendsNothing ==
    \A r \in Runs :
        (run[r].pc # "idle" /\ run[r].dry_run) =>
            /\ run[r].pc = "done"
            /\ run[r].sent_count = 0
            /\ run[r].failed_count = 0
            /\ Len(run[r].results) = Len(run[r].sel)
            /\ \A k \in 1..Len(run[r].sel) :
                  /\ run[r].results[k].booking_id = run[r].sel[k].booking_id
                  /\ run[r].results[k].status = "would_send"
            /\ \A b \in DOMAIN bookings : \A e \in EventTypes :
                  Marker(b, e) = NULL /\ delivered[b][e] = 0

C32_Witness ==
    /\ run[1].pc = "done"
    /\ run[1].dry_run
    /\ run[1].configured
    /\ Len(run[1].results) = BatchSize
    /\ \A k \in 1..BatchSize : run[1].results[k].status = "would_send"
    /\ \A k \in 1..BatchSize : run[1].sel[k].guest_email # ""

\* C33: the step that records a failed result for an item is not one in
\* which, or after which in the same attempt, the provider accepted the
\* e-mail of that item.
C33_FailureMeansNotAccepted ==
    [][\A r \in Runs :
          (/\ Len(run'[r].results) = Len(run[r].results) + 1
           /\ run'[r].results[Len(run'[r].results)].status = "failed")
          => /\ ~(run[r].pc = "mark" /\ run[r].accepted)
             /\ delivered' = delivered]_vars

\* C34: when a dashboard session clicks a status button of a card it loaded
\* earlier, the status it stores is an allowed transition from the status
\* that is stored at that moment.
C34_StaleClickStoresAllowedTransition ==
    [][\A s \in Sessions, b \in DOMAIN bookings :
          (/\ session[s] # <<>>
           /\ session'[s] = <<>>
           /\ Canonical(bookings'[b].status) # Canonical(bookings[b].status))
          => bookings'[b].status \in TransitionTable(bookings[b].status)]_vars

\* C35: the provider accepts a journey e-mail only for a booking whose
\* stored status is Confirmed at that moment.
C35_SendOnlyWhileConfirmed ==
    [][\A b \in DOMAIN bookings : \A e \in EventTypes :
          delivered'[b][e] > delivered[b][e]
              => bookings[b].status = "Confirmed"]_vars

\* The bookings whose marker of the event type is set.
Notified(db, email_type) ==
    {b \in DOMAIN db :
        IF email_type = "pre_arrival" THEN db[b].pre_arrival_email_sent_at # NULL
        ELSE db[b].post_play_email_sent_at # NULL}

\* C36: a step that changes the status of a booking leaves its two markers
\* as they were, and a booking whose marker of an event type is set is not
\* in the batch selection for that event type, whatever its status has
\* been in between.
C36_StatusRoundTripNotReselected ==
    [][/\ \A b \in DOMAIN bookings :
             bookings'[b].status # bookings[b].status
             => /\ bookings'[b].pre_arrival_email_sent_at
                      = bookings[b].pre_arrival_email_sent_at
                /\ bookings'[b].post_play_email_sent_at
                      = bookings[b].post_play_email_sent_at
       /\ \A e \in EventTypes :
             (Notified(bookings, e) \cap Ids(LogicSelect(e, Club)) = {})']_vars

C36_Witness ==
    \E b \in DOMAIN bookings :
        /\ run[1].pc = "done"
        /\ run[1].email_type = "pre_arrival"
        /\ Len(run[1].results) = 1
        /\ run[1].results[1].booking_id = b
        /\ run[1].results[1].status = "sent"
        /\ b \in Notified(bookings, "pre_arrival")
        /\ bookings[b].status = "Confirmed"
        /\ bookings[b].updated_by \in Users
        /\ bookings[b].date = today + PRE_ARRIVAL_DAYS
        /\ b \notin Ids(LogicSelect("pre_arrival", Club))

----------------------------------------------------------------------------
\* Every operation that writes the bookings table, on one table.

\* An UPDATE of the note that also resets the two tracking columns.
update_note_resetting_markers(db, booking_id, note) ==
    IF booking_id \in DOMAIN db
    THEN [db EXCEPT ![booking_id] =
             [@ EXCEPT !.note = note,
                       !.updated_at = Timestamp(today),
                       !.pre_arrival_email_sent_at = NULL,
                       !.post_play_email_sent_at = NULL]]
    ELSE db

\* update_booking_note: UPDATE bookings SET note, updated_at = NOW().
update_booking_note(db, booking_id, note) ==
    IF booking_id \in DOMAIN db
    THEN [db EXCEPT ![booking_id] =
             [@ EXCEPT !.note = note, !.updated_at = Timestamp(today)]]
    ELSE db

\* update_booking_tee_time: UPDATE bookings SET tee_time, updated_at = NOW().
update_booking_tee_time(db, booking_id, tee_time) ==
    IF booking_id \in DOMAIN db
    THEN [db EXCEPT ![booking_id] =
             [@ EXCEPT !.tee_time = tee_time, !.updated_at = Timestamp(today)]]
    ELSE db

\* The "Save Notes" button of a card: offered when the text differs from
\* the note shown, which is the stored note when the table was just read
\* and some earlier note when it comes from the cache; a successful save
\* clears the cache.
SaveNotes(b, note, db_ok) ==
    LET df == load_bookings_from_db("dashboard", Club) IN
    /\ b \in DOMAIN df
    /\ cache["dashboard"] = <<>> => note # bookings[b].note
    /\ IF db_ok
       THEN /\ bookings' = update_booking_note(bookings, b, note)
            /\ cache' = [cache EXCEPT !["dashboard"] = <<>>]
       ELSE /\ bookings' = bookings
            /\ cache' = [cache EXCEPT !["dashboard"] = Snapshot(df)]
    /\ UNCHANGED <<today, existing_cols, nav, run, delivered, backfill, resolved, session>>

\* A call of update_booking_tee_time; an exception leaves the row alone.
EditTeeTime(b, tee_time, db_ok) ==
    /\ b \in DOMAIN bookings
    /\ bookings' = IF db_ok THEN update_booking_tee_time(bookings, b, tee_time)
                   ELSE bookings
    /\ UNCHANGED <<today, existing_cols, cache, nav, run, delivered, backfill, resolved, session>>

\* A table with both tracking columns whose bookings are due; some were
\* notified the day before.
InitWrites ==
    /\ today = 0
    /\ existing_cols = AllTrackingColumns
    /\ bookings \in
         [StatusIds ->
            {[NewBooking("Confirmed", d, "guest@example.com", Club)
                 EXCEPT !.pre_arrival_email_sent_at = pre,
                        !.post_play_email_sent_at = post] :
               d \in {PRE_ARRIVAL_DAYS, 0 - POST_PLAY_DAYS},
               pre \in {NULL, Timestamp(today - 1)},
               post \in {NULL, Timestamp(today - 1)}}]
    /\ cache = [a \in Apps |-> <<>>]
    /\ nav = <<>>
    /\ run = IdleRuns
    /\ delivered = NoDeliveries
    /\ backfill = <<>>
    /\ resolved = <<>>
    /\ session = NoSessions

\* A send or resend of either module, status clicks, note and tee-time
\* edits and the backfill, in any order.
NextWrites ==
    \/ \E e \in EventTypes : process_emails(1, e, Club, FALSE, TRUE)
    \/ \E e \in EventTypes, k \in StatusIds : PageSendOne(1, e, FALSE, k, TRUE)
    \/ \E outcome \in ProviderOutcomes : Send(1, outcome)
    \/ \E db_ok \in BOOLEAN : Mark(1, db_ok)
    \/ \E b \in StatusIds, key \in NavKeys, u \in Users, ok \in BOOLEAN :
          DashboardClick(b, key, u, ok)
    \/ \E b \in StatusIds, note \in Notes \ {NULL}, ok \in BOOLEAN :
          SaveNotes(b, note, ok)
    \/ \E b \in StatusIds, t \in {Text("Not Specified"), Text("10:35 AM")},
          ok \in BOOLEAN :
          EditTeeTime(b, t, ok)
    \/ \E db_ok \in BOOLEAN : fix_all_tee_times(Club, db_ok)

SpecWrites == InitWrites /\ [][NextWrites]_vars

\* C37: no step sets a marker that is non-null back to null.
C37_MarkerNeverCleared ==
    [][\A b \in DOMAIN bookings :
          /\ bookings[b].pre_arrival_email_sent_at # NULL
             => bookings'[b].pre_arrival_email_sent_at # NULL
          /\ bookings[b].post_play_email_sent_at # NULL
             => bookings'[b].post_play_email_sent_at # NULL]_vars

\* A marked booking that has since been resent, moved to another status,
\* given a note and had its tee time filled in by the backfill.
C37_Witness ==
    \E b \in DOMAIN bookings :
        /\ bookings[b].pre_arrival_email_sent_at = Timestamp(today)
        /\ run[1].pc = "done" /\ run[1].resend
        /\ run[1].email_type = "pre_arrival"
        /\ Len(run[1].results) = 1 /\ run[1].results[1].status = "sent"
        /\ bookings[b].status # "Confirmed"
        /\ bookings[b].note # NULL
        /\ bookings[b].tee_time = extract_tee_time_from_note(bookings[b].note)
        /\ Len(backfill) > 0
        /\ backfill[Len(backfill)].updated_count = 1

\* The stored status of booking b is s.
StoredStatusIs(b, s) == b \in DOMAIN bookings /\ bookings[b].status = s

\* C38: with the dashboard as the only writer, a step takes a booking into
\* Booked only from Confirmed and into Cancelled only from Booked, and a
\* booking that starts in Inquiry or Pending is never Booked unless it has
\* been Requested and, after that, Confirmed.
C38_BookedOnlyThroughConfirmed ==
    /\ [][\A b \in DOMAIN bookings :
             /\ (bookings'[b].status = "Booked" /\ bookings[b].status # "Booked")
                => bookings[b].status = "Confirmed"
             /\ (bookings'[b].status = "Cancelled"
                   /\ bookings[b].status # "Cancelled")
                => bookings[b].status = "Booked"]_vars
    /\ \A b \in StatusIds :
          (StoredStatusIs(b, "Inquiry") \/ StoredStatusIs(b, "Pending"))
          => \/ [](~StoredStatusIs(b, "Booked"))
             \/ <>(StoredStatusIs(b, "Requested")
                     /\ <>StoredStatusIs(b, "Confirmed"))

\* A booking whose card was last rendered in Inquiry and that has since
\* been clicked through to Booked.
C38_Witness ==
    \E b \in DOMAIN bookings :
        /\ nav # <<>>
        /\ nav[1].current_status = "Inquiry"
        /\ bookings[b].status = "Booked"
        /\ bookings[b].updated_by \in Users

\* C39: a run of fix_all_tee_times that an exception ends, after any
\* number of its UPDATEs, leaves every row of the table as it was and
\* reports (0, 0).
C39_FailedBackfillPersistsNothing ==
    [][Len(backfill') = Len(backfill) + 1
          => LET report == backfill'[Len(backfill')]
             IN (report.job = "fix_all_tee_times" /\ ~report.ok)
                => /\ bookings' = bookings
                   /\ report.updated_count = 0
                   /\ report.not_found_count = 0]_vars

\* A run that failed after issuing an UPDATE for a row that is still
\* without its tee time.
C39_Witness ==
    /\ Len(backfill) = 1
    /\ backfill[1].job = "fix_all_tee_times"
    /\ ~backfill[1].ok
    /\ backfill[1].executed >= 1
    /\ backfill[1].updated_count = 0
    /\ \E b \in MissingTeeTime(bookings, Club) :
          /\ extract_tee_time_from_note(bookings[b].note) # NULL
          /\ bookings[b].updated_at = NULL

====
